---- MODULE Spec2Model ----
(***************************************************************************)
(* Model of lib/rules/sort-imports-by-length.js: the ESLint rule that      *)
(* groups the import declarations of a file, sorts every group by the      *)
(* length of the declaration's text and offers one fix that replaces the   *)
(* range from the first to the last import by the regenerated block.       *)
(*                                                                         *)
(* A file is a sequence of tokens: the text of a top-level statement or a  *)
(* line break.  A path is a sequence of one-character strings.  A node is  *)
(* a statement token together with its range in the file, so two nodes     *)
(* with the same text are still different objects (!== compares nodes).    *)
(***************************************************************************)
EXTENDS Integers, Sequences, FiniteSets

VARIABLES text, before, pc, importNodes, sortedImports, reports, fixes

vars == <<text, before, pc, importNodes, sortedImports, reports, fixes>>

(* ------------------------------ bounds --------------------------------- *)
MaxStmts == 3
MaxTextLen == 2
MaxFixes == 1

(* ------------------------- JavaScript values --------------------------- *)
\* the value a function returns when it falls off its end
undefined == 0 - 1
\* the initial currentGroupType of generateFixedCode
null == 0 - 2

(* ------------------------------ inputs --------------------------------- *)
\* one path for every outcome of the four tests on a path: 'r', '@s', '.x',
\* './x', '../x', and '..' which passes none of them (as do '', '.' and '/x')
Paths ==
  { <<"r">>, <<"@", "s">>, <<".", "x">>, <<".", "/", "x">>,
    <<".", ".", "/", "x">>, <<".", ".">> }

LineBreak == [type |-> "LineBreak", source |-> <<>>, importKind |-> "none", len |-> 1]

\* the paths that also occur in a type-only import
TypePaths == { <<".", ".">> }

ImportTexts ==
  [type : {"ImportDeclaration"}, source : Paths, importKind : {"value"},
   len : 1..MaxTextLen]
  \cup
  [type : {"ImportDeclaration"}, source : TypePaths, importKind : {"type"},
   len : 1..MaxTextLen]

OtherTexts ==
  [type : {"ExpressionStatement"}, source : {<<>>}, importKind : {"none"},
   len : {1}]

StmtTexts == ImportTexts \cup OtherTexts

Bodies == UNION { [1..n -> StmtTexts] : n \in 0..MaxStmts }

\* the source text of a body: its statements, one per line
RECURSIVE Lines(_)
Lines(b) ==
  IF Len(b) = 0 THEN <<>>
  ELSE IF Len(b) = 1 THEN <<b[1]>>
  ELSE <<b[1], LineBreak>> \o Lines(Tail(b))

(* ------------------------------ parser --------------------------------- *)
\* node.body of the Program node: every statement of the text with its range
RECURSIVE ParseFrom(_, _)
ParseFrom(t, k) ==
  IF k > Len(t) THEN <<>>
  ELSE IF t[k].type = "LineBreak" THEN ParseFrom(t, k + 1)
  ELSE <<[type |-> t[k].type, source |-> t[k].source,
          importKind |-> t[k].importKind, len |-> t[k].len,
          range |-> <<k - 1, k>>]>> \o ParseFrom(t, k + 1)

Body(t) == ParseFrom(t, 1)

\* sourceCode.getText(node): the tokens of the node's range
getText(node) ==
  [type |-> node.type, source |-> node.source, importKind |-> node.importKind,
   len |-> node.len]

IsImportDeclaration(n) == n.type = "ImportDeclaration"

(* ---------------------------- classifier ------------------------------- *)
isThirdParty(importPath) ==
  Len(importPath) >= 1 /\ importPath[1] \notin {".", "/", "@"}

isAtImport(importPath) ==
  Len(importPath) >= 1 /\ importPath[1] = "@"

isSingleDotRelative(importPath) ==
  /\ Len(importPath) >= 2
  /\ importPath[1] = "."
  /\ importPath[2] \notin {".", "/"}

isMultiDotRelative(importPath) ==
  /\ Len(importPath) >= 2
  /\ importPath[1] = "."
  /\ \/ importPath[2] = "/"
     \/ Len(importPath) >= 3 /\ importPath[2] = "." /\ importPath[3] = "/"

isTypeImport(node) == node.importKind = "type"

getGroupType(node) ==
  IF isThirdParty(node.source) THEN 0
  ELSE IF isAtImport(node.source) THEN 1
  ELSE IF isSingleDotRelative(node.source) THEN 2
  ELSE IF isMultiDotRelative(node.source) THEN 3
  ELSE IF isTypeImport(node) THEN 4
  ELSE undefined

\* variant: unshift instead of push
RECURSIVE pushAll_unshift(_, _)
pushAll_unshift(groups, nodes) ==
  IF Len(nodes) = 0 THEN groups
  ELSE LET node == Head(nodes)
           g == IF getGroupType(node) = undefined THEN 0
                ELSE getGroupType(node) + 1
       IN pushAll_unshift(IF g = 0 THEN groups
                          ELSE [groups EXCEPT ![g] = <<node>> \o @],
                          Tail(nodes))

\* the forEach of groupImports: every node is pushed on the group of the
\* first test it passes, or on none; groups is indexed 1..5 (groups[k-1] in
\* the source)
RECURSIVE pushAll(_, _)
pushAll(groups, nodes) ==
  IF Len(nodes) = 0 THEN groups
  ELSE LET node == Head(nodes)
           importPath == node.source
           g == IF isThirdParty(importPath) THEN 1
                ELSE IF isAtImport(importPath) THEN 2
                ELSE IF isSingleDotRelative(importPath) THEN 3
                ELSE IF isMultiDotRelative(importPath) THEN 4
                ELSE IF isTypeImport(node) THEN 5
                ELSE 0
       IN pushAll(IF g = 0 THEN groups
                  ELSE [groups EXCEPT ![g] = Append(@, node)], Tail(nodes))

\* the five groups before the empty ones are removed
fiveGroups(nodes) == pushAll(<<<<>>, <<>>, <<>>, <<>>, <<>>>>, nodes)

\* variant: the groups kept in the order in which they first received a node
RECURSIVE firstSeen(_, _)
firstSeen(nodes, seen) ==
  IF Len(nodes) = 0 THEN <<>>
  ELSE LET t == getGroupType(Head(nodes))
       IN IF t = undefined \/ t \in seen THEN firstSeen(Tail(nodes), seen)
          ELSE <<t>> \o firstSeen(Tail(nodes), seen \cup {t})

groupImports_firstSeen(nodes) ==
  LET order == firstSeen(nodes, {})
  IN [k \in 1..Len(order) |-> fiveGroups(nodes)[order[k] + 1]]

\* groups.filter((group) => group.length > 0)
groupImports(nodes) == SelectSeq(fiveGroups(nodes), LAMBDA group : Len(group) > 0)

(* ------------------------------ sorting -------------------------------- *)
\* variant: an element is placed before the elements it compares equal to
RECURSIVE insertSorted_unstable(_, _)
insertSorted_unstable(sorted, a) ==
  IF Len(sorted) = 0 THEN <<a>>
  ELSE IF getText(a).len - getText(Head(sorted)).len <= 0
       THEN <<a>> \o sorted
       ELSE <<Head(sorted)>> \o insertSorted_unstable(Tail(sorted), a)

\* Array.prototype.sort with the comparator aLength - bLength: a stable
\* sort (ECMAScript 2019), here by insertion after the elements that do not
\* compare greater
RECURSIVE insertSorted(_, _)
insertSorted(sorted, a) ==
  IF Len(sorted) = 0 THEN <<a>>
  ELSE IF getText(a).len - getText(Head(sorted)).len < 0
       THEN <<a>> \o sorted
       ELSE <<Head(sorted)>> \o insertSorted(Tail(sorted), a)

RECURSIVE sortFrom(_, _)
sortFrom(sorted, rest) ==
  IF Len(rest) = 0 THEN sorted
  ELSE sortFrom(insertSorted(sorted, Head(rest)), Tail(rest))

sortedGroup(group) == sortFrom(<<>>, group)

RECURSIVE concatSorted(_)
concatSorted(groupedImports) ==
  IF Len(groupedImports) = 0 THEN <<>>
  ELSE sortedGroup(Head(groupedImports)) \o concatSorted(Tail(groupedImports))

(* --------------------------- text generation --------------------------- *)
RECURSIVE trimStart(_)
trimStart(code) ==
  IF Len(code) > 0 /\ Head(code).type = "LineBreak" THEN trimStart(Tail(code))
  ELSE code

RECURSIVE trimEnd(_)
trimEnd(code) ==
  IF Len(code) > 0 /\ code[Len(code)].type = "LineBreak"
  THEN trimEnd(SubSeq(code, 1, Len(code) - 1))
  ELSE code

trim(code) == trimEnd(trimStart(code))

\* variant: the group of the previous node is never remembered
RECURSIVE emit_noCurrent(_, _, _, _)
emit_noCurrent(sorted, index, code, currentGroupType) ==
  IF index > Len(sorted) THEN code
  ELSE LET node == sorted[index]
           groupType == getGroupType(node)
           sep == IF currentGroupType # groupType /\ index # 1
                  THEN <<LineBreak>> ELSE <<>>
       IN emit_noCurrent(sorted, index + 1,
                         code \o sep \o <<getText(node), LineBreak>>, null)

\* the forEach of generateFixedCode
RECURSIVE emit(_, _, _, _)
emit(sorted, index, code, currentGroupType) ==
  IF index > Len(sorted) THEN code
  ELSE LET node == sorted[index]
           groupType == getGroupType(node)
           sep == IF currentGroupType # groupType /\ index # 1
                  THEN <<LineBreak>> ELSE <<>>
       IN emit(sorted, index + 1,
               code \o sep \o <<getText(node), LineBreak>>, groupType)

generateFixedCode(sorted) == trim(emit(sorted, 1, <<>>, null))

(* ------------------------------ the rule ------------------------------- *)
\* importNodes[i] !== sortedImports[i]; an index past the end is undefined
differsAt(nodes, sorted, i) == i > Len(sorted) \/ nodes[i] # sorted[i]

\* variant: the loop goes on after a report
RECURSIVE compareFrom_noBreak(_, _, _)
compareFrom_noBreak(nodes, sorted, i) ==
  IF i > Len(nodes) THEN <<>>
  ELSE IF differsAt(nodes, sorted, i)
       THEN <<[node |-> nodes[i],
               range |-> <<nodes[1].range[1], nodes[Len(nodes)].range[2]>>,
               fixedCode |-> generateFixedCode(sorted)]>>
            \o compareFrom_noBreak(nodes, sorted, i + 1)
       ELSE compareFrom_noBreak(nodes, sorted, i + 1)

\* the comparison loop: context.report at the first difference, then break
RECURSIVE compareFrom(_, _, _)
compareFrom(nodes, sorted, i) ==
  IF i > Len(nodes) THEN <<>>
  ELSE IF differsAt(nodes, sorted, i)
       THEN <<[node |-> nodes[i],
               range |-> <<nodes[1].range[1], nodes[Len(nodes)].range[2]>>,
               fixedCode |-> generateFixedCode(sorted)]>>
       ELSE compareFrom(nodes, sorted, i + 1)

Init ==
  /\ \E b \in Bodies : text = Lines(b)
  /\ before = <<>>
  /\ pc = "lint"
  /\ importNodes = <<>>
  /\ sortedImports = <<>>
  /\ reports = <<>>
  /\ fixes = 0

\* the Program handler, run on the current text of the file
Program ==
  /\ pc = "lint"
  /\ LET nodes == SelectSeq(Body(text), IsImportDeclaration)
     IN /\ importNodes' = nodes
        /\ IF Len(nodes) = 0
           THEN /\ sortedImports' = <<>>
                /\ reports' = <<>>
           ELSE LET sorted == concatSorted(groupImports(nodes))
                IN /\ sortedImports' = sorted
                   /\ reports' = compareFrom(nodes, sorted, 1)
  /\ pc' = "linted"
  /\ UNCHANGED <<text, before, fixes>>

\* fixer.replaceTextRange(range, fixedCode) of the reported fix, applied to
\* the file, which is then linted again
ApplyFix ==
  /\ pc = "linted"
  /\ Len(reports) > 0
  /\ fixes < MaxFixes
  /\ LET r == reports[1]
     IN text' = SubSeq(text, 1, r.range[1]) \o r.fixedCode
                  \o SubSeq(text, r.range[2] + 1, Len(text))
  /\ before' = text
  /\ fixes' = fixes + 1
  /\ pc' = "lint"
  /\ UNCHANGED <<importNodes, sortedImports, reports>>

Next == Program \/ ApplyFix

Spec == Init /\ [][Next]_vars

(* ------------------------------ properties ----------------------------- *)
Linted == pc = "linted"

Reported == Linted /\ Len(reports) > 0

\* the positions of the statement texts in a generated code
StmtPositions(code) == { p \in 1..Len(code) : code[p].type # "LineBreak" }

\* positions p < q of code that hold consecutive statements
Consecutive(code, p, q) ==
  /\ p \in StmtPositions(code) /\ q \in StmtPositions(code) /\ p < q
  /\ \A m \in StmtPositions(code) : ~(p < m /\ m < q)

Occurrences(seq, x) == Cardinality({ k \in 1..Len(seq) : seq[k] = x })

OtherStatements(t) == SelectSeq(t, LAMBDA tok : tok.type = "ExpressionStatement")

StartsWithDotSlash(p) == Len(p) >= 2 /\ p[1] = "." /\ p[2] = "/"

StartsWithDotDotSlash(p) ==
  Len(p) >= 3 /\ p[1] = "." /\ p[2] = "." /\ p[3] = "/"

\* the positions at which the original order differs from the sorted one
Mismatches == { i \in 1..Len(importNodes) : differsAt(importNodes, sortedImports, i) }

\* C1: the lint pass that follows an applied fix reports nothing
C1_Idempotence == (Linted /\ fixes >= 1) => reports = <<>>

C1_Witness ==
  /\ Linted /\ fixes >= 1 /\ reports = <<>>
  /\ Len(importNodes) >= 2
  /\ \E i \in 1..Len(importNodes) - 1 :
       getGroupType(importNodes[i]) = getGroupType(importNodes[i + 1])
       /\ importNodes[i].len = importNodes[i + 1].len

\* C2: a file with no import or with one import is never reported
C2_NoOpOnEmptyOrSingleton ==
  (Linted /\ Len(importNodes) <= 1) => reports = <<>>

\* C3: every import node is placed in exactly one of the five groups
C3_ExactlyOneBucket ==
  Linted =>
    \A i \in 1..Len(importNodes) :
      Cardinality({ g \in 1..5 :
        Occurrences(fiveGroups(importNodes)[g], importNodes[i]) = 1 }) = 1

\* C4: a path that starts with ./ is put in the single-dot group (the third)
\* and one that starts with ../ in the multi-dot group (the fourth), so that
\* every ./ import precedes every ../ import in the sorted order
C4_DotSlashIsSingleDot ==
  Linted =>
    /\ \A i \in 1..Len(importNodes) :
         /\ StartsWithDotSlash(importNodes[i].source) =>
              Occurrences(fiveGroups(importNodes)[3], importNodes[i]) = 1
         /\ StartsWithDotDotSlash(importNodes[i].source) =>
              Occurrences(fiveGroups(importNodes)[4], importNodes[i]) = 1
    /\ \A i, j \in 1..Len(sortedImports) :
         (/\ StartsWithDotDotSlash(sortedImports[i].source)
          /\ StartsWithDotSlash(sortedImports[j].source)) => j < i

\* C5: in the sorted order a node of a lower group index precedes every node
\* of a higher group index
C5_CategoryPrecedence ==
  Linted =>
    \A i, j \in 1..Len(sortedImports) :
      (i < j /\ getGroupType(sortedImports[i]) # getGroupType(sortedImports[j]))
        => getGroupType(sortedImports[i]) < getGroupType(sortedImports[j])

C5_Witness ==
  /\ Linted
  /\ \E i, j \in 1..Len(sortedImports) :
       /\ i < j
       /\ getGroupType(sortedImports[i]) = 0
       /\ getGroupType(sortedImports[j]) = 1
       /\ sortedImports[j].range[1] < sortedImports[i].range[1]
       /\ sortedImports[j].len < sortedImports[i].len

\* C6: within a group the sorted order is by ascending text length, and nodes
\* of equal length keep their order of the input
C6_StableByLength ==
  Linted =>
    \A i, j \in 1..Len(sortedImports) :
      (i < j /\ getGroupType(sortedImports[i]) = getGroupType(sortedImports[j]))
        => /\ sortedImports[i].len <= sortedImports[j].len
           /\ sortedImports[i].len = sortedImports[j].len
                => sortedImports[i].range[1] < sortedImports[j].range[1]

C6_Witness ==
  /\ Linted
  /\ \E i, j, k \in 1..Len(sortedImports) :
       /\ i < j /\ j < k
       /\ getGroupType(sortedImports[i]) = getGroupType(sortedImports[j])
       /\ getGroupType(sortedImports[j]) = getGroupType(sortedImports[k])
       /\ sortedImports[i].len = sortedImports[j].len
       /\ sortedImports[j].len < sortedImports[k].len
       /\ sortedImports[k].range[1] < sortedImports[i].range[1]

\* C7: the generated code holds the sorted texts in order, starts and ends
\* with a text, and separates consecutive texts by two line breaks (one blank
\* line) when their groups differ and by one line break when they agree
C7_BlankLines ==
  Reported =>
    LET code == reports[1].fixedCode
    IN /\ SelectSeq(code, LAMBDA tok : tok.type # "LineBreak")
            = [k \in 1..Len(sortedImports) |-> getText(sortedImports[k])]
       /\ Len(code) > 0 =>
            code[1].type # "LineBreak" /\ code[Len(code)].type # "LineBreak"
       /\ \A p, q \in 1..Len(code) :
            Consecutive(code, p, q) =>
              q - p - 1 = IF getGroupType(code[p]) # getGroupType(code[q])
                          THEN 2 ELSE 1

C7_Witness ==
  /\ Reported
  /\ LET code == reports[1].fixedCode
     IN /\ \E p, q \in 1..Len(code) :
             Consecutive(code, p, q) /\ getGroupType(code[p]) # getGroupType(code[q])
        /\ \E p, q \in 1..Len(code) :
             Consecutive(code, p, q) /\ getGroupType(code[p]) = getGroupType(code[q])

\* C8: one report, on the node at the first position where the original and
\* the sorted order differ, when there is such a position; none otherwise
C8_OneReport ==
  Linted =>
    IF Mismatches = {}
    THEN reports = <<>>
    ELSE /\ Len(reports) = 1
         /\ \E i \in Mismatches :
              /\ \A m \in Mismatches : i <= m
              /\ reports[1].node = importNodes[i]

C8_Witness ==
  /\ Linted
  /\ Len(reports) = 1
  /\ Cardinality(Mismatches) >= 2
  /\ 1 \notin Mismatches

\* C9: a fix leaves the statements that are not imports in the file
C9_FixFrame ==
  (pc = "lint" /\ fixes >= 1) => OtherStatements(text) = OtherStatements(before)

\* C10: the sorted order is a permutation of the import nodes
C10_Permutation ==
  Linted =>
    /\ Len(sortedImports) = Len(importNodes)
    /\ \A i \in 1..Len(importNodes) :
         Occurrences(sortedImports, importNodes[i]) = 1

====
